---- MODULE Spec2Model ----
(***************************************************************************)
(* Cache refresh and health/uptime state tracking of the eero Business     *)
(* Dashboard: update_cache (app/dashboard.py), the Alert Engine            *)
(* (app/alerts.py), the UptimeIncident and Alert tables (app/database.py), *)
(* the disk snapshot of the data cache and startup reconciliation.         *)
(*                                                                         *)
(* Time is an integer clock; one tick is HoursPerTick hours.  Timestamps   *)
(* (isoformat strings in the program) are the clock values they encode.    *)
(***************************************************************************)
EXTENDS Integers, Sequences, FiniteSets, TLC

MaxTime == 1
MaxIncidents == 2
MaxAlerts == 1
MaxFeed == 4
HoursPerTick == 25

MaxCycles == 170
MaxDevices == 8
MaxOverscore == 15
MaxQuiet == 2
MaxAdvances == 3
MaxSessions == 2
MaxCodes == 2
MAX_AGE_HOURS == 24
SESSION_EXPIRY_HOURS == 24
VERIFICATION_CODE_EXPIRY_MINUTES == 10
MAX_RETRIES == 3
SERIES_LIMIT == 168
BANDWIDTH_THRESHOLD == 95

NULL == "null"
\* An absent timestamp (None).
NoTime == 0 - 1
Networks == {"n1"}
Health == {"healthy", "degraded", "offline"}
Threads == {"main", "bg", "web"}

\* The lists of active networks the configuration file can hold.
Configs == {<< >>, <<"n1">>}
\* get_all_devices: <<got_data, connected>>: whether the device list is
\* non-empty, and the number of effectively active devices in it.
DeviceFetches == {<<FALSE, 0>>, <<TRUE, 0>>, <<TRUE, 1>>}
\* The eero node inventory <<total_nodes, green_nodes>>; <<0, 0>> is an
\* unavailable or empty inventory.
NodeReports == {<<0, 0>>, <<2, 2>>, <<2, 1>>, <<2, 0>>}
BwSamples == {95, 96}
\* Outcomes of writing the snapshot file.  The write succeeds: a failed write
\* leaves the previous file in place, as a crash before the write does (Crash).
SaveOutcomes == {"ok"}

VARIABLES
    now,              \* wall clock
    config,           \* active networks of the configuration file (not edited
                      \* while the model runs)
    data_cache,       \* data_cache['networks']: network id -> NetworkCache
    previous_health,  \* alerts._previous_health
    cache_lock,       \* _cache_lock is held
    pc,               \* position of each thread
    frame,            \* locals of the update_cache invocation of each thread
    snapshot,         \* the snapshot file: << >> (none) or
                      \* <<[networks, last_update, saved_at]>>
    incidents,        \* uptime_incidents table, in id order
    alerts,           \* alerts table, in id order
    trail,            \* per network, the health statuses of its latest processed
                      \* cycles in this process (observation only)
    fed,              \* the statuses passed to check_health_transition by a
                      \* direct caller, in call order (observation only)
    produced,         \* what each of these calls returned (observation only)
    last_update,      \* data_cache['combined']['last_update']
    metrics,          \* network_metrics table: the <<network_id, timestamp>> of
                      \* its rows
    series,           \* the bounded time series of a network's cache and of the
                      \* combined cache; a sample is the number of its append
    appended,         \* how many samples each series was given (observation only)
    devices,          \* the device counts of the network caches and of the
                      \* combined cache, and the counters of the running cycle
    probe,            \* a call of one of the pure functions: its arguments and
                      \* what it returned
    sm,               \* the SessionManager: _pending_codes, _sessions, utcnow
    api_call,         \* a call of EeroAPI.get_all_devices: its attempts, its
                      \* sleeps and what it returned
    response          \* the message of the latest answer of /api/refresh

vars == <<now, config, data_cache, previous_health, cache_lock, pc, frame,
          snapshot, incidents, alerts, trail, fed, produced, last_update,
          metrics, series, appended, devices, probe, sm, api_call, response>>

Max(a, b) == IF a >= b THEN a ELSE b

EmptyMap == [n \in {} |-> NULL]

Put(f, k, v) == [x \in (DOMAIN f) \cup {k} |-> IF x = k THEN v ELSE f[x]]

\* The NetworkCache created for a network seen for the first time: the keys
\* health_status, _prev_health and offline_since are absent.
NewNetworkCache ==
    [health_status |-> NULL, prev_health |-> NULL, offline_since |-> NoTime]

NoFrame == [current_time |-> NoTime, todo |-> << >>, observed |-> EmptyMap]

-----------------------------------------------------------------------------
(* Persistent store *)

OpenIncidents(incs, network_id) ==
    {i \in DOMAIN incs : incs[i].network_id = network_id /\ incs[i].end_time = NoTime}

AllOpenIncidents(incs) ==
    {i \in DOMAIN incs : incs[i].end_time = NoTime}

\* close_incident with the operands of the duration swapped and no clamp.
close_incident_reversed(inc, t) ==
    [inc EXCEPT !.end_time = t, !.duration_seconds = inc.start_time - t]

close_incident(inc, t) ==
    [inc EXCEPT !.end_time = t,
                !.duration_seconds = Max(0, t - inc.start_time)]

\* insert_uptime_incident that stores the row as already ended.
insert_uptime_incident_ended(incs, network_id, start_time) ==
    Append(incs, [network_id |-> network_id, start_time |-> start_time,
                  end_time |-> start_time, duration_seconds |-> 0])

insert_uptime_incident(incs, network_id, start_time) ==
    Append(incs, [network_id |-> network_id, start_time |-> start_time,
                  end_time |-> NoTime, duration_seconds |-> NoTime])

\* The rows of network_metrics after insert_metric.
insert_metric(rows, network_id, timestamp) == rows \cup {<<network_id, timestamp>>}

insert_alert(al, network_id, alert_type, severity, created_at) ==
    Append(al, [network_id |-> network_id, alert_type |-> alert_type,
                severity |-> severity, created_at |-> created_at])

\* created_at of the first offline alert of the network in created_at order,
\* NoTime when there is none.
first_offline_alert(al, network_id) ==
    LET ids == {i \in DOMAIN al : al[i].network_id = network_id
                                  /\ al[i].alert_type = "offline"}
    IN IF ids = {} THEN NoTime
       ELSE LET i == CHOOSE i \in ids : \A j \in ids : al[i].created_at <= al[j].created_at
            IN al[i].created_at

-----------------------------------------------------------------------------
(* Snapshot file *)

\* save_data_cache that never writes the file.
save_data_cache_unwritten(snap, cache, combined_last_update, t, outcome) == snap

save_data_cache(snap, cache, combined_last_update, t, outcome) ==
    CASE outcome = "ok" -> <<[networks |-> cache, last_update |-> combined_last_update,
                              saved_at |-> t]>>
      [] outcome = "failed" -> snap

\* load_data_cache that takes a snapshot of any age.
load_data_cache_any_age(snap, t) ==
    IF snap = << >> THEN << >> ELSE <<snap[1].networks>>

\* << >> for None, else <<saved networks>>.
load_data_cache(snap, t) ==
    IF snap = << >> THEN << >>
    ELSE IF (t - snap[1].saved_at) * HoursPerTick > MAX_AGE_HOURS THEN << >>
    ELSE <<snap[1].networks>>

initialize_data_cache(snap, t) ==
    LET saved_cache == load_data_cache(snap, t)
    IN IF saved_cache = << >> THEN EmptyMap ELSE saved_cache[1]

\* data_cache['combined']['last_update'] of the initialised data cache.
initial_last_update(snap, t) ==
    IF load_data_cache(snap, t) = << >> THEN NoTime ELSE snap[1].last_update

-----------------------------------------------------------------------------
(* Alert Engine *)

\* The alert dict a check returns; NoAlert stands for None.
NoAlert == [alert_type |-> NULL, severity |-> NULL]

\* check_health_transition without the test that the prior status was healthy.
check_health_transition_any_prior(old_status, new_status) ==
    IF old_status = NULL \/ old_status = new_status THEN NoAlert
    ELSE IF new_status = "offline"
    THEN [alert_type |-> "offline", severity |-> "critical"]
    ELSE IF new_status = "degraded"
    THEN [alert_type |-> "degraded", severity |-> "warning"]
    ELSE NoAlert

check_health_transition(old_status, new_status) ==
    IF old_status = NULL \/ old_status = new_status THEN NoAlert
    ELSE IF new_status = "offline"
    THEN [alert_type |-> "offline", severity |-> "critical"]
    ELSE IF new_status = "degraded" /\ old_status = "healthy"
    THEN [alert_type |-> "degraded", severity |-> "warning"]
    ELSE NoAlert

\* check_bandwidth_alert with the threshold included.
check_bandwidth_alert_inclusive(utilization) ==
    IF utilization >= BANDWIDTH_THRESHOLD
    THEN [alert_type |-> "bandwidth", severity |-> "critical"]
    ELSE NoAlert

check_bandwidth_alert(utilization) ==
    IF utilization > BANDWIDTH_THRESHOLD
    THEN [alert_type |-> "bandwidth", severity |-> "critical"]
    ELSE NoAlert

\* The alerts process_network_alerts returns, in order.
process_network_alerts(old_status, health_status, utilization) ==
    LET health_alert == check_health_transition(old_status, health_status)
        bw_alert == check_bandwidth_alert(utilization)
    IN (IF health_alert # NoAlert THEN <<health_alert>> ELSE << >>)
       \o (IF bw_alert # NoAlert THEN <<bw_alert>> ELSE << >>)

\* What happens in the try block of a check that built an alert: insert_alert
\* commits and notify_alert returns, insert_alert raises, or insert_alert
\* commits and notify_alert raises.
AlertOutcomes == {"ok", "insert_fails", "notify_fails"}

\* Whether insert_alert committed the row.
committed(outcome) == outcome # "insert_fails"

\* escapes_check as if notify_alert were called after the try block.
escapes_check_after_try(outcome) == outcome = "notify_fails"

\* Whether the exception of an outcome leaves the check: the except clause of
\* the try block around insert_alert and notify_alert catches Exception.
escapes_check(outcome) == outcome \notin {"ok", "insert_fails", "notify_fails"}

\* Whether process_network_alerts raises to update_cache.
alerts_raise(outcomes) == \E k \in DOMAIN outcomes : escapes_check(outcomes[k])

\* The alerts table after the inserts of the alerts the checks produced;
\* db_ok[k] is the outcome of the try block of the k-th alert.
RECURSIVE persist_alerts(_, _, _, _, _)
persist_alerts(al, network_id, produced_alerts, t, db_ok) ==
    IF produced_alerts = << >> THEN al
    ELSE persist_alerts(
            IF committed(Head(db_ok))
            THEN insert_alert(al, network_id, Head(produced_alerts).alert_type,
                              Head(produced_alerts).severity, t)
            ELSE al,
            network_id, Tail(produced_alerts), t, Tail(db_ok))

-----------------------------------------------------------------------------
(* Cache refresh *)

\* acquire that succeeds whoever holds the lock.
acquire_unguarded(held) == TRUE

\* threading.Lock.acquire(blocking=False) on a lock in state `held`.
acquire(held) == ~held

\* Health from the eero node inventory, with the client-based fallback.
node_health(nodes, connected) ==
    IF nodes[1] > 0
    THEN IF nodes[2] = nodes[1] THEN "healthy"
         ELSE IF nodes[2] > 0 THEN "degraded"
         ELSE "offline"
    ELSE IF connected > 0 THEN "healthy" ELSE "offline"

\* recovery_close that sets end_time and leaves duration_seconds unset.
recovery_close_no_duration(incs, network_id, t) ==
    [i \in DOMAIN incs |->
        IF i \in OpenIncidents(incs, network_id) THEN [incs[i] EXCEPT !.end_time = t]
        ELSE incs[i]]

\* recovery_close that selects the closed rows of the network too.
recovery_close_every_row(incs, network_id, t) ==
    [i \in DOMAIN incs |->
        IF incs[i].network_id = network_id THEN close_incident(incs[i], t)
        ELSE incs[i]]

recovery_close(incs, network_id, t) ==
    [i \in DOMAIN incs |->
        IF i \in OpenIncidents(incs, network_id) THEN close_incident(incs[i], t)
        ELSE incs[i]]

\* track_incidents that opens an incident on the first observation too.
track_incidents_from_unknown(incs, prev_health, health_status, network_id, t, db_ok) ==
    IF prev_health = "offline" /\ health_status # "offline"
    THEN IF db_ok THEN recovery_close(incs, network_id, t) ELSE incs
    ELSE IF health_status = "offline" /\ prev_health # "offline"
    THEN IF db_ok THEN insert_uptime_incident(incs, network_id, t) ELSE incs
    ELSE incs

\* track_incidents that closes a single open incident of the network.
track_incidents_close_first(incs, prev_health, health_status, network_id, t, db_ok) ==
    IF prev_health = "offline" /\ health_status # "offline"
    THEN IF db_ok /\ OpenIncidents(incs, network_id) # {}
         THEN LET first == CHOOSE i \in OpenIncidents(incs, network_id) :
                              \A j \in OpenIncidents(incs, network_id) : i <= j
              IN [incs EXCEPT ![first] = close_incident(incs[first], t)]
         ELSE incs
    ELSE IF health_status = "offline" /\ prev_health \notin {"offline", NULL}
    THEN IF db_ok THEN insert_uptime_incident(incs, network_id, t) ELSE incs
    ELSE incs

\* Uptime tracking of one network: the incident table after the step.
track_incidents(incs, prev_health, health_status, network_id, t, db_ok) ==
    IF prev_health = "offline" /\ health_status # "offline"
    THEN IF db_ok THEN recovery_close(incs, network_id, t) ELSE incs
    ELSE IF health_status = "offline" /\ prev_health \notin {"offline", NULL}
    THEN IF db_ok THEN insert_uptime_incident(incs, network_id, t) ELSE incs
    ELSE incs

\* track_offline_since that keeps offline_since on recovery.
track_offline_since_kept(offline_since, prev_health, health_status, first_alert, t) ==
    LET kept == IF health_status = "offline" /\ prev_health \notin {"offline", NULL}
                THEN t
                ELSE offline_since
    IN IF health_status = "offline"
       THEN IF first_alert # NoTime THEN first_alert
            ELSE IF kept = NoTime THEN t ELSE kept
       ELSE kept

\* Uptime tracking of one network: offline_since after the step.
track_offline_since(offline_since, prev_health, health_status, first_alert, t) ==
    LET cleared == IF prev_health = "offline" /\ health_status # "offline"
                   THEN NoTime
                   ELSE IF health_status = "offline" /\ prev_health \notin {"offline", NULL}
                   THEN t
                   ELSE offline_since
    IN IF health_status = "offline"
       THEN IF first_alert # NoTime THEN first_alert
            ELSE IF cleared = NoTime THEN t ELSE cleared
       ELSE cleared

\* updated_network_cache that writes the marker only when the network is or
\* was offline.
updated_network_cache_lazy_marker(network_cache, health_status, first_alert, t) ==
    [health_status |-> health_status,
     prev_health |-> IF health_status = "offline" \/ network_cache.prev_health = "offline"
                     THEN health_status ELSE network_cache.prev_health,
     offline_since |-> track_offline_since(network_cache.offline_since,
                           network_cache.prev_health, health_status, first_alert, t)]

\* The NetworkCache of a network after a loop iteration with data.
updated_network_cache(network_cache, health_status, first_alert, t) ==
    [health_status |-> health_status,
     prev_health |-> health_status,
     offline_since |-> track_offline_since(network_cache.offline_since,
                           network_cache.prev_health, health_status, first_alert, t)]

\* Startup reconciliation: the incident table after _close_orphaned_incidents.
cached_health(cache, network_id) ==
    IF network_id \in DOMAIN cache THEN cache[network_id].health_status ELSE NULL

\* close_orphaned_incidents without the test that a health status is cached.
close_orphaned_incidents_unknown_too(incs, cache, t) ==
    [i \in DOMAIN incs |->
        IF /\ i \in AllOpenIncidents(incs)
           /\ cached_health(cache, incs[i].network_id) # "offline"
        THEN close_incident(incs[i], t)
        ELSE incs[i]]

close_orphaned_incidents(incs, cache, t) ==
    [i \in DOMAIN incs |->
        IF /\ i \in AllOpenIncidents(incs)
           /\ cached_health(cache, incs[i].network_id) # NULL
           /\ cached_health(cache, incs[i].network_id) # "offline"
        THEN close_incident(incs[i], t)
        ELSE incs[i]]

-----------------------------------------------------------------------------
(* Time series and device counts of the data cache *)

\* The series of a fresh data cache: connected_users and signal_strength_avg
\* of a network's cache, and of the combined cache.
NoSeries == [net_users |-> << >>, net_signal |-> << >>,
             all_users |-> << >>, all_signal |-> << >>]

\* append_sample that keeps the first SERIES_LIMIT samples.
append_sample_keep_oldest(samples, sample) ==
    LET grown == Append(samples, sample)
    IN IF Len(grown) > SERIES_LIMIT THEN SubSeq(grown, 1, SERIES_LIMIT) ELSE grown

\* samples.append(sample); if len(samples) > 168: samples = samples[-168:]
append_sample(samples, sample) ==
    LET grown == Append(samples, sample)
    IN IF Len(grown) > SERIES_LIMIT
       THEN SubSeq(grown, Len(grown) - SERIES_LIMIT + 1, Len(grown))
       ELSE grown

\* What the device list of the one network gives a cycle: nothing, active
\* devices without a usable signal value, or some with one.
CycleKinds == {"no_data", "no_signal", "signal"}

\* The device counts of a fresh data cache; todo, counting, total and wireless
\* are the loop position and combined_devices of the running cycle.
NoDevices ==
    [networks |-> EmptyMap,
     combined |-> [total_devices |-> 0, wireless_devices |-> 0, wired_devices |-> 0],
     counting |-> FALSE, todo |-> << >>, total |-> 0, wireless |-> 0]

\* get_all_devices: whether the device list is non-empty, how many of its
\* devices are active, and how many of these are wireless.
DeviceLists ==
    {[got |-> FALSE, connected |-> 0, wireless |-> 0],
     [got |-> TRUE, connected |-> 0, wireless |-> 0],
     [got |-> TRUE, connected |-> 1, wireless |-> 0],
     [got |-> TRUE, connected |-> 1, wireless |-> 1],
     [got |-> TRUE, connected |-> 2, wireless |-> 1]}

\* The counts network_cache.update stores for a device list.
network_counts(fetch) ==
    [total_devices |-> fetch.connected,
     wireless_devices |-> fetch.wireless,
     wired_devices |-> fetch.connected - fetch.wireless]

-----------------------------------------------------------------------------
(* Observation of the processed cycles *)

Pattern == <<"healthy", "offline", "healthy">>

IsPrefix(s, q) == Len(s) <= Len(q) /\ \A i \in 1..Len(s) : s[i] = q[i]

NoTrail == [seen |-> << >>, base |-> 0, committed |-> TRUE]

\* The trail of a network after a processed cycle with health h: seen is the
\* longest run of its latest consecutive processed cycles that starts like
\* Pattern, base the number of its incident rows before the first cycle of the
\* run, committed whether no incident transaction of the later cycles failed.
advance(tr, h, db_ok, rows) ==
    IF IsPrefix(Append(tr.seen, h), Pattern)
    THEN [seen |-> Append(tr.seen, h),
          base |-> IF tr.seen = << >> THEN rows ELSE tr.base,
          committed |-> IF tr.seen = << >> THEN TRUE ELSE tr.committed /\ db_ok]
    ELSE IF h = "healthy"
    THEN [seen |-> <<"healthy">>, base |-> rows, committed |-> TRUE]
    ELSE IF tr.seen = Pattern /\ h = "offline"
    THEN [seen |-> <<"healthy", "offline">>, base |-> rows, committed |-> db_ok]
    ELSE NoTrail

RowsOf(incs, network_id) == {i \in DOMAIN incs : incs[i].network_id = network_id}

-----------------------------------------------------------------------------
(* Pure functions: health classification and grading *)

\* calculate_health_status with exactly half of the devices online as healthy.
calculate_health_status_half_healthy(total_devices, online_devices) ==
    IF total_devices = 0 \/ online_devices = 0 THEN "offline"
    ELSE IF 2 * online_devices >= total_devices THEN "healthy"
    ELSE "degraded"

\* online_pct = online_devices / total_devices; online_pct > 0.5.  The float
\* quotient of two device counts is above 0.5 exactly when the rational is,
\* which is compared here in tenths.
calculate_health_status(total_devices, online_devices) ==
    IF total_devices = 0 \/ online_devices = 0 THEN "offline"
    ELSE IF 10 * online_devices > 5 * total_devices THEN "healthy"
    ELSE "degraded"

\* A score is held in tenths of a point: 899 is 89.9.
Tenths == 10

\* score_to_grade whose B starts above 80.
score_to_grade_b_above_80(score) ==
    IF score >= 90 * Tenths THEN "A"
    ELSE IF score > 80 * Tenths THEN "B"
    ELSE IF score >= 70 * Tenths THEN "C"
    ELSE IF score >= 60 * Tenths THEN "D"
    ELSE "F"

score_to_grade(score) ==
    IF score >= 90 * Tenths THEN "A"
    ELSE IF score >= 80 * Tenths THEN "B"
    ELSE IF score >= 70 * Tenths THEN "C"
    ELSE IF score >= 60 * Tenths THEN "D"
    ELSE "F"

\* No function was called yet.
NoProbe == [fn |-> NULL, args |-> << >>, result |-> NULL]

-----------------------------------------------------------------------------
(* SessionManager.  utcnow is in minutes.  A session token is the ordinal of
   the session: secrets.token_urlsafe(32) does not return a token twice. *)

Emails == {"a@x", "b@x"}
\* The codes generate_code can return.
Codes == {"048271", "917305"}
Tokens == 1..MaxSessions + 1

Drop(f, k) == [x \in (DOMAIN f) \ {k} |-> f[x]]

\* What a call returned: ok is the boolean (success, validity), token the
\* session token (0: none), email the email (NULL: None), code the code,
\* removed <<sessions_removed, codes_removed>>.
Reply(op, ok, token, email, code, removed) ==
    [op |-> op, ok |-> ok, token |-> token, email |-> email, code |-> code,
     removed |-> removed]

\* __init__; latest and granted observe the codes issued and the tokens
\* returned, advances and issues count the clock steps and the codes.
SessionManager ==
    [pending_codes |-> EmptyMap, sessions |-> EmptyMap, utcnow |-> 0,
     latest |-> EmptyMap, granted |-> EmptyMap, advances |-> 0, issues |-> 0,
     reply |-> Reply(NULL, FALSE, 0, NULL, NULL, <<0, 0>>)]

send_verification(s, email, code) ==
    [s EXCEPT
        !.pending_codes = Put(@, email,
            [code |-> code,
             expires_at |-> s.utcnow + VERIFICATION_CODE_EXPIRY_MINUTES]),
        !.latest = Put(@, email, [code |-> code, issued_at |-> s.utcnow,
                                  used |-> FALSE]),
        !.issues = @ + 1,
        !.reply = Reply("send_verification", TRUE, 0, email, code, <<0, 0>>)]

\* verify_code that leaves the pending code in place on success.
verify_code_keeps_code(s, email, code, session_token) ==
    IF email \notin DOMAIN s.pending_codes
    THEN [s EXCEPT !.reply = Reply("verify_code", FALSE, 0, email, code, <<0, 0>>)]
    ELSE IF s.utcnow > s.pending_codes[email].expires_at
    THEN [s EXCEPT !.pending_codes = Drop(@, email),
                   !.reply = Reply("verify_code", FALSE, 0, email, code, <<0, 0>>)]
    ELSE IF s.pending_codes[email].code # code
    THEN [s EXCEPT !.reply = Reply("verify_code", FALSE, 0, email, code, <<0, 0>>)]
    ELSE [s EXCEPT
            !.sessions = Put(@, session_token,
                [email |-> email,
                 expires_at |-> s.utcnow + SESSION_EXPIRY_HOURS * 60]),
            !.granted = Put(@, session_token,
                [email |-> email,
                 expires_at |-> s.utcnow + SESSION_EXPIRY_HOURS * 60]),
            !.latest = [@ EXCEPT ![email].used = TRUE],
            !.reply = Reply("verify_code", TRUE, session_token, email, code, <<0, 0>>)]

verify_code(s, email, code, session_token) ==
    IF email \notin DOMAIN s.pending_codes
    THEN [s EXCEPT !.reply = Reply("verify_code", FALSE, 0, email, code, <<0, 0>>)]
    ELSE IF s.utcnow > s.pending_codes[email].expires_at
    THEN [s EXCEPT !.pending_codes = Drop(@, email),
                   !.reply = Reply("verify_code", FALSE, 0, email, code, <<0, 0>>)]
    ELSE IF s.pending_codes[email].code # code
    THEN [s EXCEPT !.reply = Reply("verify_code", FALSE, 0, email, code, <<0, 0>>)]
    ELSE [s EXCEPT
            !.pending_codes = Drop(@, email),
            !.sessions = Put(@, session_token,
                [email |-> email,
                 expires_at |-> s.utcnow + SESSION_EXPIRY_HOURS * 60]),
            !.granted = Put(@, session_token,
                [email |-> email,
                 expires_at |-> s.utcnow + SESSION_EXPIRY_HOURS * 60]),
            !.latest = [@ EXCEPT ![email].used = TRUE],
            !.reply = Reply("verify_code", TRUE, session_token, email, code, <<0, 0>>)]

\* validate_session that takes a session at its expires_at as expired.
validate_session_early(s, session_token) ==
    IF session_token \notin DOMAIN s.sessions
    THEN [s EXCEPT !.reply = Reply("validate_session", FALSE, session_token,
                                   NULL, NULL, <<0, 0>>)]
    ELSE IF s.utcnow >= s.sessions[session_token].expires_at
    THEN [s EXCEPT !.sessions = Drop(@, session_token),
                   !.reply = Reply("validate_session", FALSE, session_token,
                                   NULL, NULL, <<0, 0>>)]
    ELSE [s EXCEPT !.reply = Reply("validate_session", TRUE, session_token,
                                   NULL, NULL, <<0, 0>>)]

validate_session(s, session_token) ==
    IF session_token \notin DOMAIN s.sessions
    THEN [s EXCEPT !.reply = Reply("validate_session", FALSE, session_token,
                                   NULL, NULL, <<0, 0>>)]
    ELSE IF s.utcnow > s.sessions[session_token].expires_at
    THEN [s EXCEPT !.sessions = Drop(@, session_token),
                   !.reply = Reply("validate_session", FALSE, session_token,
                                   NULL, NULL, <<0, 0>>)]
    ELSE [s EXCEPT !.reply = Reply("validate_session", TRUE, session_token,
                                   NULL, NULL, <<0, 0>>)]

get_session_email(s, session_token) ==
    LET validated == validate_session(s, session_token)
    IN IF ~validated.reply.ok
       THEN [validated EXCEPT !.reply = Reply("get_session_email", FALSE,
                                              session_token, NULL, NULL, <<0, 0>>)]
       ELSE [validated EXCEPT !.reply =
                Reply("get_session_email", TRUE, session_token,
                      validated.sessions[session_token].email, NULL, <<0, 0>>)]

cleanup_expired(s) ==
    LET expired_sessions == {token \in DOMAIN s.sessions :
                                s.utcnow > s.sessions[token].expires_at}
        expired_codes == {email \in DOMAIN s.pending_codes :
                                s.utcnow > s.pending_codes[email].expires_at}
    IN [s EXCEPT
          !.sessions = [token \in (DOMAIN @) \ expired_sessions |-> @[token]],
          !.pending_codes = [email \in (DOMAIN @) \ expired_codes |-> @[email]],
          !.reply = Reply("cleanup_expired", TRUE, 0, NULL, NULL,
                          <<Cardinality(expired_sessions),
                            Cardinality(expired_codes)>>)]

-----------------------------------------------------------------------------
(* EeroAPI.get_all_devices *)

\* What one attempt can meet: a response with a device list under 'data', a
\* response without the 'data' key, a timeout, another request error (a
\* connection error, a non-2xx status), any other exception.
AttemptOutcomes == {"data", "no_data_key", "timeout", "request_error", "error"}
\* The device lists a response can hold.
Payloads == {<< >>, <<"d1">>, <<"d1", "d2">>}

\* No call is running; tried observes the attempts of the call, slept the
\* seconds of its sleeps.
NoCall == [status |-> "idle", attempt |-> 0, tried |-> << >>, slept |-> << >>,
           result |-> << >>, no_data |-> FALSE]

\* get_all_devices_attempt that lets the exception of the last attempt out.
get_all_devices_attempt_reraise(c, outcome, payload) ==
    LET seen == [c EXCEPT !.tried = Append(@, <<outcome, payload>>)]
    IN CASE outcome = "data" -> [seen EXCEPT !.status = "returned", !.result = payload]
         [] outcome = "no_data_key" -> [seen EXCEPT !.status = "returned", !.result = << >>]
         [] OTHER ->
              IF c.attempt < MAX_RETRIES - 1
              THEN [seen EXCEPT !.slept = Append(@, 2 ^ c.attempt), !.attempt = @ + 1]
              ELSE [seen EXCEPT !.attempt = @ + 1, !.status = "raised"]

\* One pass of the for loop of get_all_devices, and the return after the loop
\* when it was the last.
get_all_devices_attempt(c, outcome, payload) ==
    LET seen == [c EXCEPT !.tried = Append(@, <<outcome, payload>>)]
    IN CASE outcome = "data" -> [seen EXCEPT !.status = "returned", !.result = payload]
         [] outcome = "no_data_key" -> [seen EXCEPT !.status = "returned", !.result = << >>]
         [] OTHER ->
              IF c.attempt < MAX_RETRIES - 1
              THEN [seen EXCEPT !.slept = Append(@, 2 ^ c.attempt), !.attempt = @ + 1]
              ELSE [seen EXCEPT !.attempt = @ + 1, !.status = "returned",
                                !.result = << >>]

-----------------------------------------------------------------------------
(* The process: startup, threads, refresh cycles *)

Init ==
    /\ now = 0
    /\ config \in Configs
    /\ data_cache = initialize_data_cache(<< >>, 0)
    /\ previous_health = EmptyMap
    /\ cache_lock = FALSE
    /\ pc = [t \in Threads |-> CASE t = "main" -> "boot"
                                 [] t = "bg" -> "unborn"
                                 [] t = "web" -> "idle"]
    /\ frame = [t \in Threads |-> NoFrame]
    /\ snapshot = << >>
    /\ incidents = << >>
    /\ alerts = << >>
    /\ trail = [n \in Networks |-> NoTrail]
    /\ fed = << >>
    /\ produced = << >>
    /\ last_update = initial_last_update(<< >>, 0)
    /\ metrics = {}
    /\ series = NoSeries
    /\ appended = [name \in DOMAIN NoSeries |-> 0]
    /\ devices = NoDevices
    /\ probe = NoProbe
    /\ sm = SessionManager
    /\ api_call = NoCall
    /\ response = NULL

\* Where a thread calls update_cache: __main__ for the initial cache update,
\* _background_refresh when its interval elapsed, api_manual_refresh after it
\* saw the lock free.
CallSite(t) ==
    CASE t = "main" -> "boot"
      [] t = "bg" -> "wait"
      [] t = "web" -> "call"

\* Where a thread continues when its update_cache call returns.
AfterReturn(t) ==
    CASE t = "main" -> "start_refresh"
      [] t = "bg" -> "wait"
      [] t = "web" -> "idle"

\* start_background_refresh: reconcile the incidents, start the thread; db_ok
\* tells whether the transaction of _close_orphaned_incidents commits.
Reconcile(db_ok) ==
    /\ pc["main"] = "start_refresh"
    /\ incidents' = IF db_ok THEN close_orphaned_incidents(incidents, data_cache, now)
                    ELSE incidents
    /\ pc' = [pc EXCEPT !["main"] = "serving", !["bg"] = "wait"]
    /\ UNCHANGED <<now, config, data_cache, previous_health, cache_lock, frame,
                   snapshot, alerts, trail, fed, produced, last_update,
                   metrics, series, appended, devices, probe, sm, api_call,
                   response>>

StartBackgroundRefresh == \E db_ok \in BOOLEAN : Reconcile(db_ok)

\* The message api_manual_refresh answers with when the update_cache call of
\* thread t returns: the call raises nothing, and only the handler's thread
\* answers.
api_manual_refresh(t, message) ==
    IF t = "web" THEN "Cache refreshed" ELSE message

\* api_manual_refresh up to its call of update_cache, or to its answer when it
\* sees the lock held.
ApiManualRefresh ==
    /\ pc["main"] = "serving"
    /\ pc["web"] = "idle"
    /\ pc' = [pc EXCEPT !["web"] = IF cache_lock THEN "idle" ELSE "call"]
    /\ response' = IF cache_lock THEN "Cache refresh already in progress" ELSE NULL
    /\ UNCHANGED <<now, config, data_cache, previous_health, cache_lock, frame,
                   snapshot, incidents, alerts, trail, fed, produced,
                   last_update, metrics, series, appended, devices, probe, sm,
                   api_call>>

\* EnterUpdateCache whose return for an empty configuration skips the finally
\* clause.
EnterUpdateCache_return_outside_try(t) ==
    /\ pc[t] = CallSite(t)
    /\ IF ~acquire(cache_lock)
       THEN /\ pc' = [pc EXCEPT ![t] = "skip"]
            /\ UNCHANGED <<cache_lock, frame, response>>
       ELSE /\ cache_lock' = TRUE
            /\ IF config = << >>
               THEN /\ pc' = [pc EXCEPT ![t] = AfterReturn(t)]
                    /\ response' = api_manual_refresh(t, response)
                    /\ UNCHANGED frame
               ELSE /\ pc' = [pc EXCEPT ![t] = "loop"]
                    /\ UNCHANGED response
                    /\ frame' = [frame EXCEPT ![t] =
                          [current_time |-> now, todo |-> config, observed |-> EmptyMap]]
    /\ UNCHANGED <<now, config, data_cache, previous_health, snapshot,
                   incidents, alerts, trail, fed, produced, last_update,
                   metrics, series, appended, devices, probe, sm, api_call>>

\* update_cache up to the loop over the active networks.
EnterUpdateCache(t) ==
    /\ pc[t] = CallSite(t)
    /\ IF ~acquire(cache_lock)
       THEN /\ pc' = [pc EXCEPT ![t] = "skip"]
            /\ UNCHANGED <<cache_lock, frame>>
       ELSE /\ cache_lock' = TRUE
            /\ IF config = << >>
               THEN /\ pc' = [pc EXCEPT ![t] = "finally"]
                    /\ UNCHANGED frame
               ELSE /\ pc' = [pc EXCEPT ![t] = "loop"]
                    /\ frame' = [frame EXCEPT ![t] =
                          [current_time |-> now, todo |-> config, observed |-> EmptyMap]]
    /\ UNCHANGED <<now, config, data_cache, previous_health, snapshot,
                   incidents, alerts, trail, fed, produced, last_update,
                   metrics, series, appended, devices, probe, sm, api_call,
                   response>>

\* update_cache found the lock held: it logs and returns.
SkipUpdateCache(t) ==
    /\ pc[t] = "skip"
    /\ pc' = [pc EXCEPT ![t] = AfterReturn(t)]
    /\ response' = api_manual_refresh(t, response)
    /\ UNCHANGED <<now, config, data_cache, previous_health, cache_lock, frame,
                   snapshot, incidents, alerts, trail, fed, produced,
                   last_update, metrics, series, appended, devices, probe, sm,
                   api_call>>

\* Whether the uptime tracking of a (previous marker, health) pair opens a
\* database transaction on the incident table.
touches_incidents(prev_health, health_status) ==
    \/ prev_health = "offline" /\ health_status # "offline"
    \/ health_status = "offline" /\ prev_health \notin {"offline", NULL}

\* The health statuses one iteration can compute from the fetched data.
FetchedHealth ==
    {node_health(nodes, fetch[2]) : nodes \in NodeReports,
                                    fetch \in {f \in DeviceFetches : f[1]}}

CurrentNetwork(t) == Head(frame[t].todo)

\* data_cache['networks'] once the entry of the network exists.
WithNetworkCache(cache, network_id) ==
    IF network_id \in DOMAIN cache THEN cache
    ELSE Put(cache, network_id, NewNetworkCache)

PrevHealth(cache, network_id) == WithNetworkCache(cache, network_id)[network_id].prev_health

\* OldStatus with healthy as the status of a network not yet seen.
OldStatus_assumed_healthy(tracking, network_id) ==
    IF network_id \in DOMAIN tracking THEN tracking[network_id] ELSE "healthy"

OldStatus(tracking, network_id) ==
    IF network_id \in DOMAIN tracking THEN tracking[network_id] ELSE NULL

\* SkipNetwork with the cache entry created before the device list is tested.
SkipNetwork_entry_first(t) ==
    /\ pc[t] = "loop"
    /\ frame[t].todo # << >>
    /\ \E fetch \in DeviceFetches : ~fetch[1]
    /\ data_cache' = WithNetworkCache(data_cache, CurrentNetwork(t))
    /\ frame' = [frame EXCEPT ![t].todo = Tail(@)]
    /\ UNCHANGED <<now, config, previous_health, cache_lock, pc, snapshot,
                   incidents, alerts, trail, fed, produced, last_update,
                   metrics, series, appended, devices, probe, sm, api_call,
                   response>>

\* A loop iteration whose get_all_devices returned no data: continue.
SkipNetwork(t) ==
    /\ pc[t] = "loop"
    /\ frame[t].todo # << >>
    /\ \E fetch \in DeviceFetches : ~fetch[1]
    /\ frame' = [frame EXCEPT ![t].todo = Tail(@)]
    /\ UNCHANGED <<now, config, data_cache, previous_health, cache_lock, pc,
                   snapshot, incidents, alerts, trail, fed, produced,
                   last_update, metrics, series, appended, devices, probe, sm,
                   api_call, response>>

\* A loop iteration that raises while the device list is processed.
RaiseInNetwork(t) ==
    /\ pc[t] = "loop"
    /\ frame[t].todo # << >>
    /\ data_cache' = WithNetworkCache(data_cache, CurrentNetwork(t))
    /\ pc' = [pc EXCEPT ![t] = "except"]
    /\ UNCHANGED <<now, config, previous_health, cache_lock, frame, snapshot,
                   incidents, alerts, trail, fed, produced, last_update,
                   metrics, series, appended, devices, probe, sm, api_call,
                   response>>

\* A loop iteration with data: health_status and bw_util are what it computes,
\* the *_db_ok tell which of its database transactions commit.
ProcessData(t, health_status, bw_util, incident_db_ok, query_db_ok, alert_db_ok) ==
    /\ pc[t] = "loop"
    /\ frame[t].todo # << >>
    /\ LET network_id == CurrentNetwork(t)
           current_time == frame[t].current_time
           created == WithNetworkCache(data_cache, network_id)
           prev_health == PrevHealth(data_cache, network_id)
           first_alert == IF query_db_ok THEN first_offline_alert(alerts, network_id)
                          ELSE NoTime
           produced_alerts == process_network_alerts(OldStatus(previous_health, network_id),
                                           health_status, bw_util)
       IN /\ incidents' = track_incidents(incidents, prev_health, health_status,
                                          network_id, current_time, incident_db_ok)
          /\ Len(incidents') <= MaxIncidents
          /\ data_cache' = Put(created, network_id,
                updated_network_cache(created[network_id], health_status,
                                      first_alert, current_time))
          /\ previous_health' = Put(previous_health, network_id, health_status)
          /\ alerts' = persist_alerts(alerts, network_id, produced_alerts,
                                      now, alert_db_ok)
          /\ Len(alerts') <= MaxAlerts
          /\ frame' = [frame EXCEPT ![t].todo = Tail(@),
                                    ![t].observed = Put(@, network_id, health_status)]
          /\ trail' = [trail EXCEPT ![network_id] =
                advance(@, health_status, incident_db_ok,
                        Cardinality(RowsOf(incidents, network_id)))]
          /\ pc' = [pc EXCEPT ![t] = IF alerts_raise(alert_db_ok) THEN "except"
                                     ELSE "loop"]
          /\ metrics' = insert_metric(metrics, network_id, current_time)
    /\ UNCHANGED <<now, config, cache_lock, snapshot, fed, produced,
                   last_update, series, appended, devices, probe, sm, api_call,
                   response>>

\* One iteration of the loop over the active networks.
ProcessNetwork(t) ==
    \/ SkipNetwork(t)
    \/ RaiseInNetwork(t)
    \/ /\ pc[t] = "loop"
       /\ frame[t].todo # << >>
       /\ \E health_status \in FetchedHealth, bw_util \in BwSamples :
             \E incident_db_ok \in IF touches_incidents(
                                       PrevHealth(data_cache, CurrentNetwork(t)),
                                       health_status)
                                THEN BOOLEAN ELSE {TRUE},
             query_db_ok \in IF health_status = "offline" THEN BOOLEAN ELSE {TRUE},
             alert_db_ok \in [1..Len(process_network_alerts(
                                       OldStatus(previous_health, CurrentNetwork(t)),
                                       health_status, bw_util)) -> AlertOutcomes] :
             ProcessData(t, health_status, bw_util, incident_db_ok, query_db_ok,
                         alert_db_ok)

\* After the loop: the combined cache is recomputed and the snapshot written.
FinishCycle(t) ==
    /\ pc[t] = "loop"
    /\ frame[t].todo = << >>
    /\ last_update' = frame[t].current_time
    /\ \E outcome \in SaveOutcomes :
          snapshot' = save_data_cache(snapshot, data_cache, last_update', now, outcome)
    /\ pc' = [pc EXCEPT ![t] = "finally"]
    /\ UNCHANGED <<now, config, data_cache, previous_health, cache_lock, frame,
                   incidents, alerts, trail, fed, produced, metrics, series,
                   appended, devices, probe, sm, api_call, response>>

\* The except clause of update_cache.
HandleException(t) ==
    /\ pc[t] = "except"
    /\ last_update' = now
    /\ \E outcome \in SaveOutcomes :
          snapshot' = save_data_cache(snapshot, data_cache, last_update', now, outcome)
    /\ pc' = [pc EXCEPT ![t] = "finally"]
    /\ UNCHANGED <<now, config, data_cache, previous_health, cache_lock, frame,
                   incidents, alerts, trail, fed, produced, metrics, series,
                   appended, devices, probe, sm, api_call, response>>

\* The finally clause of update_cache, and its return.
ReleaseLock(t) ==
    /\ pc[t] = "finally"
    /\ cache_lock' = FALSE
    /\ pc' = [pc EXCEPT ![t] = AfterReturn(t)]
    /\ frame' = [frame EXCEPT ![t] = NoFrame]
    /\ response' = api_manual_refresh(t, response)
    /\ UNCHANGED <<now, config, data_cache, previous_health, snapshot,
                   incidents, alerts, trail, fed, produced, last_update,
                   metrics, series, appended, devices, probe, sm, api_call>>

\* The process dies: its memory is lost, the files and the database stay.
Crash ==
    /\ pc["main"] # "dead"
    /\ pc' = [t \in Threads |-> "dead"]
    /\ data_cache' = EmptyMap
    /\ previous_health' = EmptyMap
    /\ cache_lock' = FALSE
    /\ frame' = [t \in Threads |-> NoFrame]
    /\ trail' = [n \in Networks |-> NoTrail]
    /\ last_update' = NoTime
    /\ response' = NULL
    /\ UNCHANGED <<now, config, snapshot, incidents, alerts, fed, produced,
                   metrics, series, appended, devices, probe, sm, api_call>>

\* The process starts: the module is imported, the data cache initialised.
Start ==
    /\ pc["main"] = "dead"
    /\ pc' = [t \in Threads |-> CASE t = "main" -> "boot"
                                  [] t = "bg" -> "unborn"
                                  [] t = "web" -> "idle"]
    /\ data_cache' = initialize_data_cache(snapshot, now)
    /\ last_update' = initial_last_update(snapshot, now)
    /\ UNCHANGED <<now, config, previous_health, cache_lock, frame, snapshot,
                   incidents, alerts, trail, fed, produced, metrics, series,
                   appended, devices, probe, sm, api_call, response>>

Tick ==
    /\ now < MaxTime
    /\ now' = now + 1
    /\ UNCHANGED <<config, data_cache, previous_health, cache_lock, pc, frame,
                   snapshot, incidents, alerts, trail, fed, produced,
                   last_update, metrics, series, appended, devices, probe, sm,
                   api_call, response>>

Next ==
    \/ StartBackgroundRefresh
    \/ ApiManualRefresh
    \/ \E t \in Threads : EnterUpdateCache(t)
    \/ \E t \in Threads : SkipUpdateCache(t)
    \/ \E t \in Threads : ProcessNetwork(t)
    \/ \E t \in Threads : FinishCycle(t)
    \/ \E t \in Threads : HandleException(t)
    \/ \E t \in Threads : ReleaseLock(t)
    \/ Crash
    \/ Start
    \/ Tick

Spec == Init /\ [][Next]_vars

\* One process that keeps running: a thread inside update_cache goes on to
\* its next step (its blocking calls have timeouts).
CycleStep(t) ==
    ProcessNetwork(t) \/ FinishCycle(t) \/ HandleException(t) \/ ReleaseLock(t)

NextRunning ==
    \/ StartBackgroundRefresh
    \/ ApiManualRefresh
    \/ \E t \in Threads : EnterUpdateCache(t)
    \/ \E t \in Threads : SkipUpdateCache(t)
    \/ \E t \in Threads : ProcessNetwork(t)
    \/ \E t \in Threads : FinishCycle(t)
    \/ \E t \in Threads : HandleException(t)
    \/ \E t \in Threads : ReleaseLock(t)

SpecRunning ==
    Init /\ [][NextRunning]_vars /\ \A t \in Threads : WF_vars(CycleStep(t))

-----------------------------------------------------------------------------
(* The Alert Engine called directly: a caller feeds one network's health
   statuses to check_health_transition, one call at a time. *)

\* One call of check_health_transition; db_ok is the outcome of its try block.
Feed(network_id, new_status, db_ok) ==
    /\ Len(fed) < MaxFeed
    /\ LET old_status == OldStatus(previous_health, network_id)
           alert == check_health_transition(old_status, new_status)
       IN /\ previous_health' = Put(previous_health, network_id, new_status)
          /\ alerts' = IF alert # NoAlert
                       THEN persist_alerts(alerts, network_id, <<alert>>, now, <<db_ok>>)
                       ELSE alerts
          /\ fed' = Append(fed, new_status)
          /\ produced' = Append(produced, alert)
    /\ UNCHANGED <<now, config, data_cache, cache_lock, pc, frame, snapshot,
                   incidents, trail, last_update, metrics, series, appended,
                   devices, probe, sm, api_call, response>>

\* One call of process_network_alerts, as a refresh cycle makes it for a
\* processed network.
FeedNetwork(network_id, health_status, utilization, outcomes) ==
    /\ Len(fed) < MaxFeed
    /\ LET old_status == OldStatus(previous_health, network_id)
           returned == process_network_alerts(old_status, health_status, utilization)
       IN /\ Len(outcomes) = Len(returned)
          /\ previous_health' = Put(previous_health, network_id, health_status)
          /\ alerts' = persist_alerts(alerts, network_id, returned, now, outcomes)
          /\ fed' = Append(fed, health_status)
          /\ produced' = Append(produced,
                                check_health_transition(old_status, health_status))
    /\ UNCHANGED <<now, config, data_cache, cache_lock, pc, frame, snapshot,
                   incidents, trail, last_update, metrics, series, appended,
                   devices, probe, sm, api_call, response>>

\* reset_health_tracking, or the start of a new process: the statuses recorded
\* in memory are gone, the alerts table stays.
ResetHealthTracking ==
    /\ Len(alerts) <= MaxAlerts
    /\ fed # << >>
    /\ previous_health' = EmptyMap
    /\ fed' = << >>
    /\ produced' = << >>
    /\ UNCHANGED <<now, config, data_cache, cache_lock, pc, frame, snapshot,
                   incidents, alerts, trail, last_update, metrics, series,
                   appended, devices, probe, sm, api_call, response>>

NextAlerts ==
    \/ \E network_id \in Networks, new_status \in Health, db_ok \in AlertOutcomes :
          Feed(network_id, new_status, db_ok)
    \/ \E network_id \in Networks, health_status \in Health, utilization \in BwSamples :
          \E outcomes \in UNION {[1..k -> AlertOutcomes] : k \in 0..2} :
             FeedNetwork(network_id, health_status, utilization, outcomes)
    \/ ResetHealthTracking

SpecAlerts == Init /\ [][NextAlerts]_vars

-----------------------------------------------------------------------------
(* A fleet of two active networks, refreshed by the background thread of a
   process that is up: the initial cache update got no data and found no
   snapshot, reconciliation found no incident.  The cycles follow each other
   within one tick of the clock. *)

Fleet == <<"n1", "n2">>

InitFleet ==
    /\ now = 0
    /\ config = Fleet
    /\ data_cache = initialize_data_cache(<< >>, 0)
    /\ previous_health = EmptyMap
    /\ cache_lock = FALSE
    /\ pc = [t \in Threads |-> CASE t = "main" -> "serving"
                                 [] t = "bg" -> "wait"
                                 [] t = "web" -> "idle"]
    /\ frame = [t \in Threads |-> NoFrame]
    /\ snapshot = save_data_cache(<< >>, initialize_data_cache(<< >>, 0), NoTime, 0, "ok")
    /\ incidents = << >>
    /\ alerts = << >>
    /\ trail = [n \in {Fleet[k] : k \in DOMAIN Fleet} |-> NoTrail]
    /\ fed = << >>
    /\ produced = << >>
    /\ last_update = NoTime
    /\ metrics = {}
    /\ series = NoSeries
    /\ appended = [name \in DOMAIN NoSeries |-> 0]
    /\ devices = NoDevices
    /\ probe = NoProbe
    /\ sm = SessionManager
    /\ api_call = NoCall
    /\ response = NULL

NextFleet ==
    \/ EnterUpdateCache("bg")
    \/ ProcessNetwork("bg")
    \/ FinishCycle("bg")
    \/ HandleException("bg")
    \/ ReleaseLock("bg")

SpecFleet == InitFleet /\ [][NextFleet]_vars

-----------------------------------------------------------------------------
(* The time series over the cycles of one network.  A cycle appends to the
   network's series in the iteration of the network, and to the combined
   series after the loop. *)

RecordSamples(kind) ==
    /\ appended.all_users < MaxCycles
    /\ kind = "no_data" => appended.all_users - appended.net_users < MaxQuiet
    /\ kind = "no_signal" => appended.net_users - appended.net_signal < MaxQuiet
    /\ LET given == [net_users |-> kind # "no_data", net_signal |-> kind = "signal",
                     all_users |-> TRUE, all_signal |-> kind = "signal"]
       IN /\ series' = [name \in DOMAIN series |->
                IF given[name] THEN append_sample(series[name], appended[name] + 1)
                ELSE series[name]]
          /\ appended' = [name \in DOMAIN appended |->
                IF given[name] THEN appended[name] + 1 ELSE appended[name]]
    /\ UNCHANGED <<now, config, data_cache, previous_health, cache_lock, pc,
                   frame, snapshot, incidents, alerts, trail, fed, produced,
                   last_update, metrics, devices, probe, sm, api_call,
                   response>>

NextSeries == \E kind \in CycleKinds : RecordSamples(kind)

SpecSeries == Init /\ [][NextSeries]_vars

-----------------------------------------------------------------------------
(* The device counts over the cycles of the fleet. *)

\* update_cache up to the loop: combined_devices is empty.
BeginCounting ==
    /\ ~devices.counting
    /\ devices' = [devices EXCEPT !.counting = TRUE, !.todo = Fleet,
                                  !.total = 0, !.wireless = 0]
    /\ UNCHANGED <<now, config, data_cache, previous_health, cache_lock, pc,
                   frame, snapshot, incidents, alerts, trail, fed, produced,
                   last_update, metrics, series, appended, probe, sm, api_call,
                   response>>

\* One loop iteration: no data, continue; else the devices go to the network's
\* cache and to combined_devices.
CountNetwork(fetch) ==
    /\ devices.counting
    /\ devices.todo # << >>
    /\ devices' =
          IF ~fetch.got THEN [devices EXCEPT !.todo = Tail(@)]
          ELSE [devices EXCEPT
                   !.todo = Tail(@),
                   !.networks = Put(@, Head(devices.todo), network_counts(fetch)),
                   !.total = @ + fetch.connected,
                   !.wireless = @ + fetch.wireless]
    /\ UNCHANGED <<now, config, data_cache, previous_health, cache_lock, pc,
                   frame, snapshot, incidents, alerts, trail, fed, produced,
                   last_update, metrics, series, appended, probe, sm, api_call,
                   response>>

\* After the loop: the combined counts are those of combined_devices.
UpdateCombined ==
    /\ devices.counting
    /\ devices.todo = << >>
    /\ devices' = [devices EXCEPT
                      !.counting = FALSE,
                      !.combined = [total_devices |-> devices.total,
                                    wireless_devices |-> devices.wireless,
                                    wired_devices |-> devices.total - devices.wireless]]
    /\ UNCHANGED <<now, config, data_cache, previous_health, cache_lock, pc,
                   frame, snapshot, incidents, alerts, trail, fed, produced,
                   last_update, metrics, series, appended, probe, sm, api_call,
                   response>>

NextCounts ==
    \/ BeginCounting
    \/ \E fetch \in DeviceLists : CountNetwork(fetch)
    \/ UpdateCombined

SpecCounts == InitFleet /\ [][NextCounts]_vars

-----------------------------------------------------------------------------
(* The pure functions called on their own *)

CallCalculateHealthStatus(total_devices, online_devices) ==
    /\ probe' = [fn |-> "calculate_health_status",
                 args |-> <<total_devices, online_devices>>,
                 result |-> calculate_health_status(total_devices, online_devices)]
    /\ UNCHANGED <<now, config, data_cache, previous_health, cache_lock, pc,
                   frame, snapshot, incidents, alerts, trail, fed, produced,
                   last_update, metrics, series, appended, devices, sm,
                   api_call, response>>

CallScoreToGrade(score) ==
    /\ probe' = [fn |-> "score_to_grade", args |-> <<score>>,
                 result |-> score_to_grade(score)]
    /\ UNCHANGED <<now, config, data_cache, previous_health, cache_lock, pc,
                   frame, snapshot, incidents, alerts, trail, fed, produced,
                   last_update, metrics, series, appended, devices, sm,
                   api_call, response>>

\* The device counts and the scores (in tenths) the functions are called with.
DeviceCounts == 0..MaxDevices
Scores == (0 - MaxOverscore)..(100 * Tenths + MaxOverscore)

NextFunctions ==
    \/ \E total_devices, online_devices \in DeviceCounts :
          CallCalculateHealthStatus(total_devices, online_devices)
    \/ \E score \in Scores : CallScoreToGrade(score)

SpecFunctions == Init /\ [][NextFunctions]_vars

-----------------------------------------------------------------------------
(* The SessionManager under its callers *)

\* The minutes the clock moves between two calls.
ClockSteps == {1, VERIFICATION_CODE_EXPIRY_MINUTES, SESSION_EXPIRY_HOURS * 60}

SmUnchanged ==
    UNCHANGED <<now, config, data_cache, previous_health, cache_lock, pc,
                frame, snapshot, incidents, alerts, trail, fed, produced,
                last_update, metrics, series, appended, devices, probe,
                api_call, response>>

SendVerification(email, code) ==
    /\ sm.issues < MaxCodes
    /\ sm' = send_verification(sm, email, code)
    /\ SmUnchanged

VerifyCode(email, code) ==
    /\ Cardinality(DOMAIN sm.granted) < MaxSessions
    /\ sm' = verify_code(sm, email, code, Cardinality(DOMAIN sm.granted) + 1)
    /\ SmUnchanged

ValidateSession(session_token) ==
    /\ sm' = validate_session(sm, session_token)
    /\ SmUnchanged

GetSessionEmail(session_token) ==
    /\ sm' = get_session_email(sm, session_token)
    /\ SmUnchanged

CleanupExpired ==
    /\ sm' = cleanup_expired(sm)
    /\ SmUnchanged

AdvanceClock(minutes) ==
    /\ sm.advances < MaxAdvances
    /\ sm' = [sm EXCEPT !.utcnow = @ + minutes, !.advances = @ + 1]
    /\ SmUnchanged

NextSessions ==
    \/ \E email \in Emails, code \in Codes : SendVerification(email, code)
    \/ \E email \in Emails, code \in Codes : VerifyCode(email, code)
    \/ \E session_token \in Tokens : ValidateSession(session_token)
    \/ \E session_token \in Tokens : GetSessionEmail(session_token)
    \/ CleanupExpired
    \/ \E minutes \in ClockSteps : AdvanceClock(minutes)

SpecSessions == InitFleet /\ [][NextSessions]_vars

-----------------------------------------------------------------------------
(* One network's device fetch in a refresh cycle *)

CallUnchanged ==
    UNCHANGED <<now, config, data_cache, previous_health, cache_lock, pc,
                frame, snapshot, incidents, alerts, trail, fed, produced,
                last_update, metrics, series, appended, devices, probe, sm,
                response>>

\* update_cache calls eero_api.get_all_devices(network_id).
CallGetAllDevices ==
    /\ api_call.status \in {"idle", "used"}
    /\ api_call' = [NoCall EXCEPT !.status = "running"]
    /\ CallUnchanged

AttemptFetch(outcome, payload) ==
    /\ api_call.status = "running"
    /\ api_call' = get_all_devices_attempt(api_call, outcome, payload)
    /\ CallUnchanged

\* update_cache: if not network_devices: continue.
UseDevices ==
    /\ api_call.status = "returned"
    /\ api_call' = [api_call EXCEPT !.status = "used",
                                    !.no_data = (api_call.result = << >>)]
    /\ CallUnchanged

NextFetch ==
    \/ CallGetAllDevices
    \/ \E outcome \in AttemptOutcomes :
          \E payload \in IF outcome = "data" THEN Payloads ELSE {<< >>} :
             AttemptFetch(outcome, payload)
    \/ UseDevices

SpecFetch == Init /\ [][NextFetch]_vars

-----------------------------------------------------------------------------
(* Claims *)

\* This step is a loop iteration with data of thread t that computes health h
\* and whose incident transaction commits iff ok.
Processed(t, h, ok) ==
    /\ pc[t] = "loop"
    /\ frame[t].todo # << >>
    /\ frame'[t].todo = Tail(frame[t].todo)
    /\ CurrentNetwork(t) \in DOMAIN previous_health'
    /\ previous_health'[CurrentNetwork(t)] = h
    /\ \E bw \in BwSamples, q \in BOOLEAN :
          \E a \in [1..Len(process_network_alerts(
                              OldStatus(previous_health, CurrentNetwork(t)), h, bw))
                      -> AlertOutcomes] :
             ProcessData(t, h, bw, ok, q, a)

\* C1: at most one incident with end_time NULL exists for every network, in
\* every reachable state of the store.
C1_AtMostOneOpenIncident ==
    \A n \in Networks : Cardinality(OpenIncidents(incidents, n)) <= 1

InCycleBody(t) == pc[t] \in {"loop", "except", "finally"}

SharedState == <<data_cache, previous_health, cache_lock, frame, snapshot,
                 incidents, alerts, last_update, metrics, series, appended,
                 devices>>

\* C2: at most one invocation of update_cache is between acquiring and
\* releasing the lock; an invocation that finds the lock held goes to its
\* return without changing the lock, the cache, the tables or the snapshot.
C2_MutualExclusion ==
    /\ [](Cardinality({t \in Threads : InCycleBody(t)}) <= 1)
    /\ [][\A t \in Threads :
            /\ (pc[t] = CallSite(t) /\ cache_lock /\ pc'[t] \notin {pc[t], "dead"})
                  => (pc'[t] = "skip" /\ UNCHANGED SharedState)
            /\ (pc[t] = "skip" /\ pc'[t] \notin {"skip", "dead"})
                  => (pc'[t] = AfterReturn(t) /\ UNCHANGED SharedState)]_vars

C2_Witness ==
    /\ pc["web"] = "skip"
    /\ pc["bg"] = "loop"
    /\ cache_lock

\* The incident rows of the network are one more than before the run of the
\* trail, and the newest is ended with duration = end_time - start_time.
LifecycleRecorded(n) ==
    LET rows == RowsOf(incidents, n)
    IN /\ Cardinality(rows) = trail[n].base + 1
       /\ LET last == CHOOSE i \in rows : \A j \in rows : j <= i
          IN /\ incidents[last].end_time # NoTime
             /\ incidents[last].duration_seconds
                   = incidents[last].end_time - incidents[last].start_time

\* C3 as stated: after three consecutive processed cycles healthy, offline,
\* healthy the store gained exactly one row of the network, ended, with
\* duration_seconds = end_time - start_time.
C3_Original ==
    \A n \in Networks : trail[n].seen = Pattern => LifecycleRecorded(n)

\* C3: the same, when the insert of the second cycle and the close of the
\* third cycle commit; at most one row is gained in any case.
C3_Lifecycle ==
    \A n \in Networks :
        trail[n].seen = Pattern =>
           /\ Cardinality(RowsOf(incidents, n)) <= trail[n].base + 1
           /\ trail[n].committed => LifecycleRecorded(n)

C3_Witness ==
    /\ trail["n1"].seen = Pattern
    /\ trail["n1"].committed
    /\ \E i \in RowsOf(incidents, "n1") : incidents[i].duration_seconds = 1

\* This step is a processed iteration of thread t with marker offline and new
\* health h, not offline.
RecoveryStep(t, h, ok) ==
    /\ h # "offline"
    /\ Processed(t, h, ok)
    /\ PrevHealth(data_cache, CurrentNetwork(t)) = "offline"

AllClosed(t) ==
    LET n == CurrentNetwork(t)
        ct == frame[t].current_time
    IN /\ \A i \in OpenIncidents(incidents, n) :
             /\ incidents'[i].end_time = ct
             /\ incidents'[i].duration_seconds = ct - incidents[i].start_time
       /\ OpenIncidents(incidents', n) = {}
       /\ data_cache'[n].offline_since = NoTime

\* C4 as stated: a processed cycle with marker offline and new health not
\* offline closes every open incident of the network at the cycle time and
\* removes offline_since.
C4_Original ==
    [][\A t \in Threads, h \in Health, ok \in BOOLEAN :
          RecoveryStep(t, h, ok) => AllClosed(t)]_vars

\* C4: the same when the close transaction commits; when it fails the incident
\* rows stay as they were, and offline_since is removed all the same.
C4_Recovery ==
    [][\A t \in Threads, h \in Health :
          /\ RecoveryStep(t, h, TRUE) => AllClosed(t)
          /\ RecoveryStep(t, h, FALSE) =>
                /\ incidents' = incidents
                /\ data_cache'[CurrentNetwork(t)].offline_since = NoTime]_vars

C4_Witness ==
    \E t \in Threads :
        /\ pc[t] = "finally"
        /\ "n1" \in DOMAIN frame[t].observed
        /\ frame[t].observed["n1"] = "degraded"
        /\ data_cache["n1"].offline_since = NoTime
        /\ \E i \in RowsOf(incidents, "n1") :
              /\ incidents[i].end_time = frame[t].current_time
              /\ incidents[i].start_time < incidents[i].end_time

\* This step is a processed iteration of thread t with marker healthy or
\* degraded and new health offline.
OpeningStep(t, ok) ==
    /\ Processed(t, "offline", ok)
    /\ PrevHealth(data_cache, CurrentNetwork(t)) \in {"healthy", "degraded"}

OneRowOpened(t) ==
    LET n == CurrentNetwork(t)
        k == Len(incidents)
    IN /\ Len(incidents') = k + 1
       /\ SubSeq(incidents', 1, k) = incidents
       /\ incidents'[k + 1].network_id = n
       /\ incidents'[k + 1].start_time = frame[t].current_time
       /\ incidents'[k + 1].end_time = NoTime

\* C5 as stated: a processed cycle with marker healthy or degraded and new
\* health offline inserts exactly one row, start_time the cycle time and
\* end_time NULL, and sets offline_since.
C5_Original ==
    [][\A t \in Threads, ok \in BOOLEAN :
          OpeningStep(t, ok) =>
             /\ OneRowOpened(t)
             /\ data_cache'[CurrentNetwork(t)].offline_since # NoTime]_vars

\* C5: the same when the insert commits; when it fails no row is inserted, and
\* offline_since is set all the same.
C5_Opening ==
    [][\A t \in Threads :
          /\ OpeningStep(t, TRUE) => OneRowOpened(t)
          /\ OpeningStep(t, FALSE) => incidents' = incidents
          /\ \A ok \in BOOLEAN :
                OpeningStep(t, ok) =>
                   data_cache'[CurrentNetwork(t)].offline_since # NoTime]_vars

C5_Witness ==
    \E t \in Threads :
        /\ pc[t] = "finally"
        /\ "n1" \in DOMAIN frame[t].observed
        /\ frame[t].observed["n1"] = "offline"
        /\ data_cache["n1"].offline_since # NoTime
        /\ Len(incidents) = 1
        /\ incidents[1].start_time = frame[t].current_time
        /\ incidents[1].end_time = NoTime

\* C6: a processed cycle whose (marker, new health) pair is neither (offline,
\* not offline) nor (healthy or degraded, offline) leaves the incident table
\* as it was.
C6_NoIncidentMutation ==
    [][\A t \in Threads, h \in Health, ok \in BOOLEAN :
          (/\ Processed(t, h, ok)
           /\ LET prev == PrevHealth(data_cache, CurrentNetwork(t))
              IN /\ ~(prev = "offline" /\ h # "offline")
                 /\ ~(prev \in {"healthy", "degraded"} /\ h = "offline"))
          => incidents' = incidents]_vars

\* The first cycle ever found the network offline: no marker, no incident.
C6_Witness ==
    \E t \in Threads :
        /\ pc[t] = "loop"
        /\ frame[t].todo = << >>
        /\ "n1" \in DOMAIN frame[t].observed
        /\ frame[t].observed["n1"] = "offline"
        /\ snapshot = << >>
        /\ incidents = << >>

\* The loop of this invocation ran to its end.
LoopCompleted(t) ==
    /\ pc[t] = "finally"
    /\ frame[t].current_time # NoTime
    /\ frame[t].todo = << >>

\* C7 as stated: at the end of every cycle every active network has a marker,
\* and it is the health status of the cycle, also when its fetch gave no data.
C7_Original ==
    \A t \in Threads :
        LoopCompleted(t) =>
           \A k \in 1..Len(config) :
              /\ config[k] \in DOMAIN data_cache
              /\ data_cache[config[k]].prev_health \in Health
              /\ data_cache[config[k]].prev_health = data_cache[config[k]].health_status

\* C7: at the end of every cycle the marker of every network whose fetch gave
\* data in the cycle is the health status computed in the cycle; an iteration
\* without data leaves the cache, marker included, as it was.
C7_MarkerUpdated ==
    /\ [](\A t \in Threads :
            pc[t] = "finally" =>
               \A n \in DOMAIN frame[t].observed :
                  data_cache[n].prev_health = frame[t].observed[n])
    /\ [][\A t \in Threads : SkipNetwork(t) => data_cache' = data_cache]_vars

C7_Witness ==
    \E t \in Threads :
        /\ LoopCompleted(t)
        /\ "n1" \in DOMAIN frame[t].observed
        /\ frame[t].observed["n1"] = "healthy"
        /\ data_cache["n1"].prev_health = "healthy"
        /\ trail["n1"].seen = <<"healthy", "offline", "healthy">>

\* The open incidents reconciliation finds for networks cached as healthy or
\* degraded.
Recoverable ==
    {i \in AllOpenIncidents(incidents) :
        cached_health(data_cache, incidents[i].network_id) \in {"healthy", "degraded"}}

\* C8 as stated: reconciliation gives every open incident of a network cached
\* healthy or degraded an end_time and a duration >= 0, and inserts no row.
C8_Original ==
    [][\A ok \in BOOLEAN :
          Reconcile(ok) =>
             /\ Len(incidents') = Len(incidents)
             /\ \A i \in Recoverable :
                   /\ incidents'[i].end_time # NoTime
                   /\ incidents'[i].duration_seconds >= 0]_vars

\* C8: the same when the reconciliation transaction commits; when it fails no
\* row changes; no row is inserted either way.
C8_Reconciliation ==
    [][/\ Reconcile(TRUE) =>
             \A i \in Recoverable :
                /\ incidents'[i].end_time # NoTime
                /\ incidents'[i].duration_seconds >= 0
       /\ Reconcile(FALSE) => incidents' = incidents
       /\ \A ok \in BOOLEAN : Reconcile(ok) => Len(incidents') = Len(incidents)]_vars

\* Reconciliation ended an incident of a network no cycle of this process has
\* processed, cached as healthy from the snapshot.
C8_Witness ==
    /\ pc["main"] = "serving"
    /\ pc["bg"] = "wait"
    /\ pc["web"] = "idle"
    /\ previous_health = EmptyMap
    /\ cached_health(data_cache, "n1") = "healthy"
    /\ \E i \in RowsOf(incidents, "n1") :
          /\ incidents[i].end_time = now
          /\ incidents[i].duration_seconds = 1

\* C9 as stated: a committed reconciliation leaves open exactly the incidents
\* of networks cached as offline; it closes those of networks with no entry or
\* no health_status.
C9_Original ==
    [][Reconcile(TRUE) =>
          \A i \in AllOpenIncidents(incidents) :
             incidents'[i].end_time = NoTime
                <=> cached_health(data_cache, incidents[i].network_id) = "offline"]_vars

\* C9: a committed reconciliation closes, at the current time, exactly the open
\* incidents of networks with a cached health_status other than offline; those
\* of networks cached offline, or with no entry or no health_status, stay open.
C9_ClosesKnownOnline ==
    [][Reconcile(TRUE) =>
          \A i \in AllOpenIncidents(incidents) :
             IF cached_health(data_cache, incidents[i].network_id) \in {"healthy", "degraded"}
             THEN /\ incidents'[i].end_time = now
                  /\ incidents'[i].duration_seconds = now - incidents[i].start_time
             ELSE incidents'[i] = incidents[i]]_vars

\* Reconciliation left open the incident of a network with no cache entry.
C9_Witness ==
    /\ pc["main"] = "serving"
    /\ pc["bg"] = "wait"
    /\ pc["web"] = "idle"
    /\ data_cache = EmptyMap
    /\ OpenIncidents(incidents, "n1") # {}

Count(seq, x) == Cardinality({k \in DOMAIN seq : seq[k].alert_type = x})

\* C10: a call of check_health_transition returns an alert iff a prior status
\* is recorded, differs from the new one, and the new one is offline (type
\* offline, critical) or is degraded after healthy (type degraded, warning);
\* healthy, degraded, offline, healthy gives one degraded and one offline alert.
C10_AlertIffTransition ==
    /\ Len(produced) = Len(fed)
    /\ \A k \in DOMAIN fed :
          LET prior == IF k = 1 THEN NULL ELSE fed[k - 1]
              new == fed[k]
              out == produced[k]
          IN /\ out # NoAlert <=>
                   /\ prior # NULL
                   /\ prior # new
                   /\ new = "offline" \/ (new = "degraded" /\ prior = "healthy")
             /\ out # NoAlert =>
                   /\ out.alert_type = new
                   /\ out.severity = IF new = "offline" THEN "critical" ELSE "warning"
    /\ fed = <<"healthy", "degraded", "offline", "healthy">> =>
          /\ Count(produced, "degraded") = 1
          /\ Count(produced, "offline") = 1
          /\ produced[1] = NoAlert
          /\ produced[4] = NoAlert

C10_Witness ==
    /\ fed = <<"healthy", "degraded", "offline", "healthy">>
    /\ produced[2].alert_type = "degraded"
    /\ produced[3].alert_type = "offline"
    /\ Len(alerts) = 2

\* C11: the first call of check_health_transition for a network after process
\* start or after reset_health_tracking records the status, returns no alert
\* and inserts nothing into the alerts table, whatever the status.
C11_FirstObservationSilent ==
    [][\A n \in Networks, s \in Health, o \in AlertOutcomes :
          (Feed(n, s, o) /\ n \notin DOMAIN previous_health) =>
             /\ previous_health'[n] = s
             /\ produced'[Len(produced')] = NoAlert
             /\ alerts' = alerts]_vars

\* The first call after a reset found the network offline: the only row is
\* the one of before the reset.
C11_Witness ==
    /\ fed = <<"offline">>
    /\ produced = <<NoAlert>>
    /\ previous_health = [n \in {"n1"} |-> "offline"]
    /\ Len(alerts) = 1
    /\ alerts[1].alert_type = "offline"

NewRows == SubSeq(alerts', Len(alerts) + 1, Len(alerts'))

AllOk(outcomes) == \A k \in DOMAIN outcomes : outcomes[k] = "ok"

\* C13: a call of process_network_alerts whose inserts commit adds a bandwidth
\* row, of severity critical, iff the utilization is above 95, whatever the
\* health statuses and the earlier calls; it adds 0, 1 or 2 rows, at most one
\* of them a bandwidth row.
C13_BandwidthAlert ==
    [][\A n \in Networks, s \in Health, u \in BwSamples :
          \A outcomes \in UNION {[1..k -> AlertOutcomes] : k \in 0..2} :
             (FeedNetwork(n, s, u, outcomes) /\ AllOk(outcomes)) =>
                /\ SubSeq(alerts', 1, Len(alerts)) = alerts
                /\ Len(NewRows) \in {0, 1, 2}
                /\ Count(NewRows, "bandwidth") = (IF u > 95 THEN 1 ELSE 0)
                /\ \A k \in DOMAIN NewRows :
                      /\ NewRows[k].network_id = n
                      /\ NewRows[k].alert_type = "bandwidth" =>
                            NewRows[k].severity = "critical"]_vars

\* Two calls in a row above the threshold gave two bandwidth rows, and the
\* second call an offline row as well.
C13_Witness ==
    /\ fed = <<"healthy", "offline">>
    /\ Len(alerts) = 3
    /\ alerts[1].alert_type = "bandwidth"
    /\ alerts[2].alert_type = "offline"
    /\ alerts[3].alert_type = "bandwidth"

\* This step is a loop iteration with data of thread t whose alert checks end
\* with the outcomes a.
ProcessedWithAlerts(t, h, bw, a) ==
    /\ pc[t] = "loop"
    /\ frame[t].todo # << >>
    /\ CurrentNetwork(t) \in DOMAIN previous_health'
    /\ previous_health'[CurrentNetwork(t)] = h
    /\ Len(a) = Len(process_network_alerts(
                       OldStatus(previous_health, CurrentNetwork(t)), h, bw))
    /\ \E ok \in BOOLEAN, q \in BOOLEAN : ProcessData(t, h, bw, ok, q, a)

C15_LaterNetworksProcessed ==
    \A t \in Threads :
        (pc[t] = "finally" /\ frame[t].current_time # NoTime) => Len(frame[t].todo) <= 1

C17_NoDataFrame ==
    [][\A t \in Threads :
          SkipNetwork(t) =>
             /\ data_cache' = data_cache
             /\ incidents' = incidents
             /\ metrics' = metrics
             /\ alerts' = alerts
             /\ previous_health' = previous_health
             /\ last_update' = last_update
             /\ pc'[t] = "loop"
             /\ frame'[t].todo = Tail(frame[t].todo)
             /\ frame'[t].observed = frame[t].observed]_vars

\* n1 gave no data in a cycle that processed n2: n1's cache is the one of the
\* last snapshot.
C17_Witness ==
    /\ pc["bg"] = "loop"
    /\ frame["bg"].todo = << >>
    /\ DOMAIN frame["bg"].observed = {"n2"}
    /\ "n1" \in DOMAIN data_cache
    /\ data_cache["n1"].health_status = "offline"
    /\ snapshot[1].networks["n1"] = data_cache["n1"]
    /\ <<"n1", 0>> \in metrics

\* No invocation of update_cache is inside its loop or its except clause.
CycleBoundary == \A t \in Threads : pc[t] \notin {"loop", "except"}

\* C19 as stated: at every cycle boundary a NetworkCache has offline_since iff
\* its health status is offline or the network has an open incident.
C19_Original ==
    CycleBoundary =>
       \A n \in DOMAIN data_cache :
          data_cache[n].offline_since # NoTime
             <=> \/ data_cache[n].health_status = "offline"
                 \/ OpenIncidents(incidents, n) # {}

\* C19: at every cycle boundary a NetworkCache has offline_since iff its
\* health status is offline, whether or not the network has an open incident.
C19_OfflineSincePresent ==
    CycleBoundary =>
       \A n \in DOMAIN data_cache :
          data_cache[n].offline_since # NoTime <=> data_cache[n].health_status = "offline"

\* A cycle found the network healthy again, its incident is still open, and
\* offline_since is gone.
C19_Witness ==
    /\ CycleBoundary
    /\ pc["bg"] = "finally"
    /\ trail["n1"].seen = <<"healthy", "offline", "healthy">>
    /\ data_cache["n1"].health_status = "healthy"
    /\ data_cache["n1"].offline_since = NoTime
    /\ OpenIncidents(incidents, "n1") # {}

\* C20 as stated, for the first offline cycle of an outage: when the processed
\* cycle before, in this process, found the network healthy or degraded, every
\* offline alert on record is of an earlier outage, and offline_since is set
\* to the cycle time.
C20_Original ==
    [][\A t \in Threads, ok \in BOOLEAN :
          (/\ Processed(t, "offline", ok)
           /\ OldStatus(previous_health, CurrentNetwork(t)) \in {"healthy", "degraded"})
          => data_cache'[CurrentNetwork(t)].offline_since = frame[t].current_time]_vars

\* C14: every series holds at most 168 samples, the latest of those appended
\* to it, in append order: the 169th append removes the oldest sample and
\* moves no other.
C14_BoundedSeries ==
    \A name \in DOMAIN series :
        LET k == appended[name]
            len == IF k > 168 THEN 168 ELSE k
        IN /\ Len(series[name]) = len
           /\ \A i \in 1..len : series[name][i] = k - len + i

\* Each series was given its 169th sample.
C14_Witness ==
    /\ \A name \in DOMAIN series : appended[name] = 169
    /\ \A name \in DOMAIN series : Len(series[name]) = 168
    /\ series.net_users[1] = 2
    /\ series.net_users[168] = 169

RECURSIVE SumOver(_, _, _)
SumOver(nets, counts, field) ==
    IF nets = {} THEN 0
    ELSE LET n == CHOOSE x \in nets : TRUE
         IN counts[n][field] + SumOver(nets \ {n}, counts, field)

\* C18 as stated: when a cycle completes, the combined total_devices,
\* wireless_devices and wired_devices are the sums of these fields over the
\* caches of the active networks, those left stale in the cycle included.
C18_CombinedIsSum ==
    [][UpdateCombined =>
          \A field \in {"total_devices", "wireless_devices", "wired_devices"} :
             devices'.combined[field]
                = SumOver(DOMAIN devices'.networks, devices'.networks, field)]_vars

\* C21: a start initialises the data cache from the snapshot exactly when a
\* snapshot exists that was saved at most 24 hours before; otherwise the
\* cache is the empty default: no network, hence no previous-health marker
\* and no offline_since, and the Alert Engine knows no status either.
C21_SnapshotInitialisation ==
    [][Start =>
          LET usable == /\ snapshot # << >>
                        /\ (now - snapshot[1].saved_at) * HoursPerTick <= 24
          IN /\ data_cache' = IF usable THEN snapshot[1].networks ELSE EmptyMap
             /\ ~usable => DOMAIN data_cache' = {}
             /\ DOMAIN previous_health' = {}]_vars

\* A process started on a snapshot that holds a network and is too old.
C21_Witness ==
    /\ pc["main"] = "boot"
    /\ snapshot # << >>
    /\ DOMAIN snapshot[1].networks # {}
    /\ (now - snapshot[1].saved_at) * HoursPerTick > 24
    /\ data_cache = EmptyMap

\* C22: with online <= total, calculate_health_status is offline iff total
\* or online is 0, degraded iff online > 0 and 2 * online <= total, healthy
\* otherwise.
C22_HealthClasses ==
    (probe.fn = "calculate_health_status" /\ probe.args[2] <= probe.args[1]) =>
        LET total == probe.args[1]
            online == probe.args[2]
            none == total = 0 \/ online = 0
            half == online > 0 /\ 2 * online <= total
        IN /\ probe.result = "offline" <=> none
           /\ probe.result = "degraded" <=> half
           /\ probe.result = "healthy" <=> (~none /\ ~half)

\* Exactly half of the devices are online.
C22_Witness ==
    /\ probe.fn = "calculate_health_status"
    /\ probe.args = <<4, 2>>
    /\ probe.result = "degraded"

GradeRank(grade) ==
    CASE grade = "F" -> 0 [] grade = "D" -> 1 [] grade = "C" -> 2
      [] grade = "B" -> 3 [] grade = "A" -> 4

\* C23: score_to_grade is A from 90, B from 80 to below 90, C from 70 to
\* below 80, D from 60 to below 70, F below 60; of two calls, the one with
\* the higher score never gets the worse grade.
C23_Grades ==
    /\ [](probe.fn = "score_to_grade" =>
            LET score == probe.args[1]
            IN /\ probe.result = "A" <=> score >= 90 * Tenths
               /\ probe.result = "B" <=> (80 * Tenths <= score /\ score < 90 * Tenths)
               /\ probe.result = "C" <=> (70 * Tenths <= score /\ score < 80 * Tenths)
               /\ probe.result = "D" <=> (60 * Tenths <= score /\ score < 70 * Tenths)
               /\ probe.result = "F" <=> score < 60 * Tenths)
    /\ [][(/\ probe.fn = "score_to_grade"
           /\ probe'.fn = "score_to_grade"
           /\ probe.args[1] <= probe'.args[1])
          => GradeRank(probe.result) <= GradeRank(probe'.result)]_vars

\* The score 80.0 is graded.
C23_Witness ==
    /\ probe.fn = "score_to_grade"
    /\ probe.args = <<80 * Tenths>>
    /\ probe.result = "B"

\* C24: verify_code succeeds exactly on the code issued last for the email,
\* not later than its expiry and not used before; a success creates the
\* session and removes the pending code, every other call creates none.
C24_CodeSingleUse ==
    [][\A email \in Emails, code \in Codes :
          VerifyCode(email, code) =>
             LET live == /\ email \in DOMAIN sm.latest
                         /\ sm.latest[email].code = code
                         /\ ~sm.latest[email].used
                         /\ sm.utcnow <= sm.latest[email].issued_at + 10
             IN /\ sm'.reply.ok = live
                /\ live => /\ sm'.reply.token \in DOMAIN sm'.sessions
                           /\ sm'.reply.token \notin DOMAIN sm.sessions
                           /\ sm'.sessions[sm'.reply.token].email = email
                           /\ email \notin DOMAIN sm'.pending_codes
                /\ ~live => sm'.sessions = sm.sessions]_vars

\* The code an email was verified with is refused the second time, while
\* unexpired.
C24_Witness ==
    /\ sm.reply.op = "verify_code"
    /\ ~sm.reply.ok
    /\ sm.reply.email \in DOMAIN sm.latest
    /\ sm.latest[sm.reply.email].used
    /\ sm.latest[sm.reply.email].code = sm.reply.code
    /\ sm.utcnow <= sm.latest[sm.reply.email].issued_at + 10
    /\ sm.issues = 2

ValidToken(session_token) ==
    /\ session_token \in DOMAIN sm.granted
    /\ sm.utcnow <= sm.granted[session_token].expires_at

\* C25: validate_session is True exactly for a token a successful verify_code
\* returned whose expires_at is not passed, and removes an expired one;
\* get_session_email gives the verified email for these tokens and None for
\* the others; cleanup_expired removes the expired sessions and codes, no
\* other, and returns how many.
C25_SessionValidity ==
    [][/\ \A session_token \in Tokens :
            ValidateSession(session_token) =>
               /\ sm'.reply.ok = ValidToken(session_token)
               /\ ~ValidToken(session_token) =>
                     session_token \notin DOMAIN sm'.sessions
       /\ \A session_token \in Tokens :
            GetSessionEmail(session_token) =>
               sm'.reply.email = IF ValidToken(session_token)
                                 THEN sm.granted[session_token].email ELSE NULL
       /\ CleanupExpired =>
            LET kept_sessions == {k \in DOMAIN sm.sessions :
                                     sm.utcnow <= sm.sessions[k].expires_at}
                kept_codes == {e \in DOMAIN sm.pending_codes :
                                     sm.utcnow <= sm.pending_codes[e].expires_at}
            IN /\ DOMAIN sm'.sessions = kept_sessions
               /\ DOMAIN sm'.pending_codes = kept_codes
               /\ \A k \in kept_sessions : sm'.sessions[k] = sm.sessions[k]
               /\ \A e \in kept_codes : sm'.pending_codes[e] = sm.pending_codes[e]
               /\ sm'.reply.removed =
                     <<Cardinality(DOMAIN sm.sessions) - Cardinality(kept_sessions),
                       Cardinality(DOMAIN sm.pending_codes) - Cardinality(kept_codes)>>
      ]_vars

\* A granted token is refused one minute after its expires_at, and is gone.
C25_Witness ==
    /\ sm.reply.op = "validate_session"
    /\ ~sm.reply.ok
    /\ sm.reply.token \in DOMAIN sm.granted
    /\ sm.utcnow = sm.granted[sm.reply.token].expires_at + 1
    /\ sm.reply.token \notin DOMAIN sm.sessions

FailedAttempt(tried) == tried[1] \in {"timeout", "request_error", "error"}

\* C26: get_all_devices makes at most 3 attempts and raises nothing; it
\* returns the list of its first attempt that got a response, having slept 1
\* then 2 seconds after the failed ones, and the empty list after a third
\* failure, with no sleep after it; update_cache takes an empty list as no
\* data.
C26_BoundedFetch ==
    /\ api_call.attempt <= 3
    /\ Len(api_call.tried) <= 3
    /\ api_call.status # "raised"
    /\ api_call.status \in {"returned", "used"} =>
          LET n == Len(api_call.tried)
              failed == {k \in 1..n : FailedAttempt(api_call.tried[k])}
          IN /\ n >= 1
             /\ 1..(n - 1) \subseteq failed
             /\ n \notin failed => api_call.result = api_call.tried[n][2]
             /\ n \in failed => n = 3 /\ api_call.result = << >>
             /\ Len(api_call.slept) = IF n = 3 THEN 2 ELSE n - 1
             /\ \A k \in 1..Len(api_call.slept) :
                   api_call.slept[k] = IF k = 1 THEN 1 ELSE 2
    /\ api_call.status = "used" => api_call.no_data = (api_call.result = << >>)

\* Three attempts timed out and the cycle took the network as without data.
C26_Witness ==
    /\ api_call.status = "used"
    /\ Len(api_call.tried) = 3
    /\ \A k \in 1..3 : api_call.tried[k][1] = "timeout"
    /\ api_call.slept = <<1, 2>>
    /\ api_call.no_data

\* C27: an invocation of update_cache that took the lock has released it when
\* it returns, by whichever path; the lock is held only while an invocation is
\* between taking and releasing it, a held lock is released in the end, and a
\* call made while no cycle runs takes the lock.
C27_LockReleased ==
    /\ [](cache_lock <=> \E t \in Threads : InCycleBody(t))
    /\ [][\A t \in Threads :
            /\ (InCycleBody(t) /\ ~InCycleBody(t)') => ~cache_lock'
            /\ (EnterUpdateCache(t) /\ ~\E u \in Threads : InCycleBody(u))
                  => cache_lock' /\ InCycleBody(t)']_vars
    /\ cache_lock ~> ~cache_lock

\* The manual refresh holds the lock on its early return, after the initial
\* update of the main thread took and released it on the same path.
C27_Witness ==
    /\ config = << >>
    /\ pc["web"] = "finally"
    /\ cache_lock

\* C28: in a process, the status the Alert Engine holds for a network is the
\* previous-health marker of the network's cache; a network whose marker has
\* no counterpart is one the Alert Engine has not seen since the start.
C28_TrackersAgree ==
    \A n \in DOMAIN previous_health :
        /\ n \in DOMAIN data_cache
        /\ data_cache[n].prev_health = previous_health[n]

\* Between two cycles of the background thread, the network was processed and
\* both trackers hold its status.
C28_Witness ==
    /\ CycleBoundary
    /\ pc["bg"] = "wait"
    /\ now = 1
    /\ "n1" \in DOMAIN previous_health
    /\ previous_health["n1"] = "degraded"
    /\ data_cache["n1"].prev_health = "degraded"

\* C29: no step removes an incident row, and a row that has an end_time keeps
\* its start_time, end_time and duration_seconds in every step: a refresh
\* cycle, the startup reconciliation, a restart.
C29_ClosedIncidentsFrozen ==
    [][/\ Len(incidents') >= Len(incidents)
       /\ \A i \in DOMAIN incidents :
             incidents[i].end_time # NoTime => incidents'[i] = incidents[i]]_vars

\* The network recovered a second time, later: the incident closed at the
\* first recovery is as it was closed.
C29_Witness ==
    /\ Len(incidents) = 2
    /\ incidents[1].end_time = 0
    /\ incidents[1].duration_seconds = 0
    /\ incidents[2].end_time = 1

\* C30 as stated: the handler answers 'Cache refreshed' only when its own
\* update_cache call took the lock, and 'Cache refresh already in progress'
\* when it sees the lock held.
C30_RefreshedOnlyAfterOwnCycle ==
    [][/\ (response' = "Cache refreshed" /\ pc["web"] # "idle")
             => pc["web"] = "finally"
       /\ (ApiManualRefresh /\ cache_lock)
             => response' = "Cache refresh already in progress"]_vars

====
